---- MODULE Spec2Model ----
(***************************************************************************)
(* seuss: monadic parser combinators (src/src/seuss.py).                   *)
(*                                                                         *)
(* A Parser wraps parse: str -> Iterator[(value, str)].  Every parse       *)
(* function of the library is a Python generator function, so calling      *)
(* p.parse(text) only creates a suspended generator; its body runs when a  *)
(* consumer calls next() on it.  The model keeps                           *)
(*   - parsers as records naming the constructor and its arguments,        *)
(*   - generators as records holding the position inside the parse body    *)
(*     (pc), the local variables and the sub-generators being iterated,    *)
(*   - Advance(g, env, depth): one next() on generator g, written from the *)
(*     body of each parse function,                                        *)
(*   - a consumer that calls parse and then next() on the result.          *)
(***************************************************************************)
EXTENDS Integers, Sequences, FiniteSets, TLC

VARIABLES
    ctor,     \* the expression that built the parser
    parser,   \* the parser value
    text,     \* the input
    iters,    \* position of each iterator given to a OneOf
    started,  \* history: the Parser.parse calls of the current call, in order
    gen,      \* the generator the consumer holds
    out,      \* the results the consumer has taken from it
    phase,    \* "idle", "iterating", "exhausted", "closed" or "error"
    take,     \* how many results the consumer asks for (All: every one)
    callNo,   \* parse calls made on parser so far
    first     \* what the first parse call gave, once a second is made

vars == <<ctor, parser, text, iters, started, gen, out, phase, take, callNo, first>>

(***************************************************************************)
(* Bounds of the model.                                                    *)
(***************************************************************************)
MaxLen == 3          \* longest input text
MaxRep == 2          \* largest repetition count given to replicate
MaxTake == 2         \* most results a consumer that stops early asks for
RecursionLimit == 12 \* nested next() calls the interpreter allows

(***************************************************************************)
(* Python values.  str is a sequence of one-character strings; every value *)
(* a parser yields is tagged with its Python type.                         *)
(***************************************************************************)
Str(s) == [k |-> "str", v |-> s]
List(xs) == [k |-> "list", v |-> xs]
None == [k |-> "none", v |-> <<>>]

Range(s) == {s[i] : i \in 1..Len(s)}

\* text.startswith(match)
StartsWith(t, match) ==
    /\ Len(match) <= Len(t)
    /\ SubSeq(t, 1, Len(match)) = match

\* text[n:]
Drop(t, n) == SubSeq(t, n + 1, Len(t))

IsSuffix(r, t) ==
    /\ Len(r) <= Len(t)
    /\ Drop(t, Len(t) - Len(r)) = r

\* string.digits and string.whitespace, as far as the modelled alphabet goes
digits == <<"0", "1", "2", "3", "4", "5", "6", "7", "8", "9">>
whitespace == <<" ">>

\* cons(x, ys) = [x] + ys
cons(x, ys) == List(<<x>> \o ys.v)

(***************************************************************************)
(* Callables handed to the library.  A Python function is a record naming  *)
(* it; Apply1, Apply2 and Call evaluate it.                                *)
(***************************************************************************)
identity == [fn |-> "identity"]                 \* lambda x: x
join == [fn |-> "join"]                         \* "".join
const(a) == [fn |-> "const", value |-> a]       \* lambda _: a
pair == [fn |-> "pair"]                         \* lambda x, y: (x, y)
consFn == [fn |-> "cons"]                       \* cons

RECURSIVE Concat(_)
Concat(ss) == IF ss = <<>> THEN <<>> ELSE Head(ss).v \o Concat(Tail(ss))

Apply1(function, v) ==
    CASE function.fn = "identity" -> v
      [] function.fn = "join" -> Str(Concat(v.v))
      [] function.fn = "const" -> function.value

Apply2(f, x, y) ==
    CASE f.fn = "cons" -> cons(x, y)
      [] f.fn = "pair" -> List(<<x, y>>)

(***************************************************************************)
(* Parser values: the constructors of the library.                         *)
(***************************************************************************)
Zero == [op |-> "Zero"]
String(match) == [op |-> "String", match |-> match]
Characters(characters) == [op |-> "Characters", characters |-> characters]
Digit == Characters(digits)
Whitespace == Characters(whitespace)
EndOfInput == [op |-> "EndOfInput"]
Map(function, p) == [op |-> "Map", function |-> function, parser |-> p]
Pure(value) == [op |-> "Pure", value |-> value]
AndThen(previous, callback) ==
    [op |-> "AndThen", previous |-> previous, callback |-> callback]
Lift(f, a, b) == [op |-> "Lift", f |-> f, a |-> a, b |-> b]

\* The iterable given to OneOf: a list can be iterated again and again, an
\* iterator (a generator, a map object) is its own iterator and is used up.
ListOf(items) == [kind |-> "list", items |-> items, id |-> 0]
IteratorOf(id, items) == [kind |-> "iterator", items |-> items, id |-> id]
OneOf(parsers) == [op |-> "OneOf", parsers |-> parsers]
many(p) == [op |-> "many", parser |-> p]

\* Parser.__or__, Parser.and_then, Parser.then, Parser.passthrough
Or(self, other) == OneOf(ListOf(<<self, other>>))
stringCb == [fn |-> "String"]                              \* String
pureCb == [fn |-> "Pure"]                                  \* Pure
thenCb(next_parser) == [fn |-> "then", next_parser |-> next_parser]
passthroughCb(next_parser) == [fn |-> "passthrough", next_parser |-> next_parser]
and_then(self, function) == AndThen(self, function)
then(self, next_parser) == AndThen(self, thenCb(next_parser))
passthrough(self, next_parser) == AndThen(self, passthroughCb(next_parser))

\* callback(value): the parser a callback constructs
Call(callback, value) ==
    CASE callback.fn = "String" -> String(value.v)
      [] callback.fn = "Pure" -> Pure(value)
      [] callback.fn = "then" -> callback.next_parser
      [] callback.fn = "passthrough" -> Map(const(value), callback.next_parser)

\* replicate: the loop over range(n) pushing Lift(cons, parser, stack[-1])
RECURSIVE replicateLoop(_, _, _, _)
replicateLoop(i, n, p, top) ==
    IF i >= n THEN top ELSE replicateLoop(i + 1, n, p, Lift(consFn, p, top))

\* the loop over range(1, n): one repetition short
replicateFromOne(n, p) == replicateLoop(1, n, p, Pure(List(<<>>)))
replicate(n, p) == replicateLoop(0, n, p, Pure(List(<<>>)))

(***************************************************************************)
(* Generators.  p.parse(text) returns a generator suspended at the start   *)
(* of the parse body.  A generator record holds                            *)
(*   p, text  the parser whose parse body it runs, and its argument        *)
(*   pc       "start"  body not entered yet                                *)
(*            "outer"  in the (outer) for loop, about to ask it for more   *)
(*            "inner"  suspended at a yield inside the inner loop or the   *)
(*                     yield from                                          *)
(*            "tail"   suspended at a yield after which the body ends      *)
(*            "done"   returned, or left by an exception                   *)
(*   sub      the generator the outer for loop iterates                    *)
(*   sub2     the generator of the inner loop / yield from                 *)
(*   idx      OneOf over a list: items the list iterator has handed out    *)
(*   value    the outer loop variable (Lift's x, many's value)             *)
(*   bottom   many's flag                                                  *)
(*   nexts    history: how often next() was called on this generator       *)
(* env holds what outlives a generator: the positions of the iterators     *)
(* given to OneOf, and the history of parse calls made.                    *)
(***************************************************************************)
NoGen == [pc |-> "none"]

NewGen(p, t) ==
    [p |-> p, text |-> t, pc |-> "start", sub |-> NoGen, sub2 |-> NoGen,
     idx |-> 0, value |-> None, bottom |-> FALSE, nexts |-> 0]

\* p.parse(t) on a Parser value p: a new generator, and the call recorded
Spawn(p, t, env) ==
    [g |-> NewGen(p, t),
     env |-> [env EXCEPT !.started = Append(@, [p |-> p, text |-> t])]]

\* What a next() call comes back with
Yielded(g, v, r, env) == [sig |-> "yield", g |-> g, v |-> v, r |-> r, env |-> env]
Stopped(g, env) ==
    [sig |-> "stop", g |-> [g EXCEPT !.pc = "done"], v |-> None, r |-> <<>>, env |-> env]
Raised(g, env) ==
    [sig |-> "error", g |-> [g EXCEPT !.pc = "done"], v |-> None, r |-> <<>>, env |-> env]

RECURSIVE Advance(_, _, _)
RECURSIVE AndThenParse(_, _, _)
RECURSIVE LiftParse(_, _, _)
RECURSIVE OneOfParse(_, _, _)
RECURSIVE manyParse(_, _, _)
RECURSIVE manyParseSkipEmpty(_, _, _)

\* Parser.Zero: reject
ZeroParse(g, env) == Stopped(g, env)

\* what String yields: (match, text[len(match):])
StringResultPrefix(match, t) == [v |-> Str(match), r |-> SubSeq(t, 1, Len(match))]
StringResult(match, t) == [v |-> Str(match), r |-> Drop(t, Len(match))]

StringParse(g, env) ==
    IF g.pc = "start" /\ StartsWith(g.text, g.p.match)
    THEN LET y == StringResult(g.p.match, g.text)
         IN Yielded([g EXCEPT !.pc = "tail"], y.v, y.r, env)
    ELSE Stopped(g, env)

CharactersParse(g, env) ==
    IF g.pc = "start" /\ g.text # <<>> /\ g.text[1] \in Range(g.p.characters)
    THEN Yielded([g EXCEPT !.pc = "tail"], Str(<<g.text[1]>>), Drop(g.text, 1), env)
    ELSE Stopped(g, env)

\* _parse_end_of_input
EndOfInputParse(g, env) ==
    IF g.pc = "start" /\ g.text = <<>>
    THEN Yielded([g EXCEPT !.pc = "tail"], None, <<>>, env)
    ELSE Stopped(g, env)

PureParse(g, env) ==
    IF g.pc = "start"
    THEN Yielded([g EXCEPT !.pc = "tail"], g.p.value, g.text, env)
    ELSE Stopped(g, env)

MapParse(g, env, depth) ==
    LET s == IF g.pc = "start"
             THEN Spawn(g.p.parser, g.text, env)
             ELSE [g |-> g.sub, env |-> env]
        r == Advance(s.g, s.env, depth + 1)
        h == [g EXCEPT !.pc = "inner", !.sub = r.g]
    IN CASE r.sig = "yield" -> Yielded(h, Apply1(g.p.function, r.v), r.r, r.env)
         [] r.sig = "stop" -> Stopped(h, r.env)
         [] r.sig = "error" -> Raised(h, r.env)

\* the parse call of AndThen's yield from: callback(value).parse(remaining)
AndThenContinueOnText(g, value, remaining) ==
    [p |-> Call(g.p.callback, value), text |-> g.text]
AndThenContinue(g, value, remaining) ==
    [p |-> Call(g.p.callback, value), text |-> remaining]

AndThenParse(g, env, depth) ==
    CASE g.pc = "start" ->
           LET s == Spawn(g.p.previous, g.text, env)
           IN AndThenParse([g EXCEPT !.pc = "outer", !.sub = s.g], s.env, depth)
      [] g.pc = "outer" ->
           LET r == Advance(g.sub, env, depth + 1)
               h == [g EXCEPT !.sub = r.g]
           IN (CASE r.sig = "yield" ->
                      LET c == AndThenContinue(g, r.v, r.r)
                          s == Spawn(c.p, c.text, r.env)
                      IN AndThenParse([h EXCEPT !.pc = "inner", !.sub2 = s.g],
                                      s.env, depth)
                 [] r.sig = "stop" -> Stopped(h, r.env)
                 [] r.sig = "error" -> Raised(h, r.env))
      [] g.pc = "inner" ->
           LET r == Advance(g.sub2, env, depth + 1)
               h == [g EXCEPT !.sub2 = r.g]
           IN (CASE r.sig = "yield" -> Yielded(h, r.v, r.r, r.env)
                 [] r.sig = "stop" ->
                      AndThenParse([h EXCEPT !.pc = "outer"], r.env, depth)
                 [] r.sig = "error" -> Raised(h, r.env))

LiftParse(g, env, depth) ==
    CASE g.pc = "start" ->
           LET s == Spawn(g.p.a, g.text, env)
           IN LiftParse([g EXCEPT !.pc = "outer", !.sub = s.g], s.env, depth)
      [] g.pc = "outer" ->
           LET r == Advance(g.sub, env, depth + 1)
               h == [g EXCEPT !.sub = r.g]
           IN (CASE r.sig = "yield" ->
                      LET s == Spawn(g.p.b, r.r, r.env)
                      IN LiftParse([h EXCEPT !.pc = "inner", !.value = r.v,
                                             !.sub2 = s.g], s.env, depth)
                 [] r.sig = "stop" -> Stopped(h, r.env)
                 [] r.sig = "error" -> Raised(h, r.env))
      [] g.pc = "inner" ->
           LET r == Advance(g.sub2, env, depth + 1)
               h == [g EXCEPT !.sub2 = r.g]
           IN (CASE r.sig = "yield" ->
                      Yielded(h, Apply2(g.p.f, g.value, r.v), r.r, r.env)
                 [] r.sig = "stop" ->
                      LiftParse([h EXCEPT !.pc = "outer"], r.env, depth)
                 [] r.sig = "error" -> Raised(h, r.env))

\* OneOf's for loop asking its iterable for the next parser.  A list gets a
\* fresh list iterator per parse call (position g.idx); an iterator is
\* shared by every parse call (position env.iters[id]).
OneOfPosition(g, env) ==
    IF g.p.parsers.kind = "list" THEN g.idx ELSE env.iters[g.p.parsers.id]

OneOfTaken(g, env) ==
    IF g.p.parsers.kind = "list"
    THEN [g |-> [g EXCEPT !.idx = @ + 1], env |-> env]
    ELSE [g |-> g, env |-> [env EXCEPT !.iters[g.p.parsers.id] = @ + 1]]

\* more: whether the for loop runs its body again
OneOfHasNextFirstMatch(g, env) ==
    /\ g.nexts = 1
    /\ OneOfPosition(g, env) < Len(g.p.parsers.items)
OneOfHasNext(g, env) == OneOfPosition(g, env) < Len(g.p.parsers.items)

\* the parse calls made when the loop body is entered for item k
RECURSIVE SpawnAll(_, _, _, _)
SpawnAll(items, k, t, env) ==
    IF k > Len(items) THEN env
    ELSE SpawnAll(items, k + 1, t, Spawn(items[k], t, env).env)

OneOfEnterEager(g, k, env) ==
    [g |-> NewGen(g.p.parsers.items[k], g.text),
     env |-> SpawnAll(g.p.parsers.items, k, g.text, env)]
OneOfEnter(g, k, env) == Spawn(g.p.parsers.items[k], g.text, env)

OneOfParse(g, env, depth) ==
    CASE g.pc \in {"start", "outer"} ->
           IF OneOfHasNext(g, env)
           THEN LET k == OneOfPosition(g, env) + 1
                    t == OneOfTaken(g, env)
                    s == OneOfEnter(g, k, t.env)
                IN OneOfParse([t.g EXCEPT !.pc = "inner", !.sub2 = s.g],
                              s.env, depth)
           ELSE Stopped(g, env)
      [] g.pc = "inner" ->
           LET r == Advance(g.sub2, env, depth + 1)
               h == [g EXCEPT !.sub2 = r.g]
           IN (CASE r.sig = "yield" -> Yielded(h, r.v, r.r, r.env)
                 [] r.sig = "stop" ->
                      OneOfParse([h EXCEPT !.pc = "outer"], r.env, depth)
                 [] r.sig = "error" -> Raised(h, r.env))

\* many: the recursive call parse(remainder).  It calls the closure itself,
\* not Parser.parse, and is not recorded in env.started.
manyRecurseOnText(g, value, remainder) == [p |-> g.p, text |-> g.text]
manyRecurse(g, value, remainder) == [p |-> g.p, text |-> remainder]

\* many: `if not bottom`
manyStopHereAlways(g) == TRUE
manyStopHere(g) == ~g.bottom

\* many.parse with zero-width matches of the inner parser skipped
manyParseSkipEmpty(g, env, depth) ==
    CASE g.pc = "start" ->
           LET s == Spawn(g.p.parser, g.text, env)
           IN manyParseSkipEmpty([g EXCEPT !.pc = "outer", !.sub = s.g,
                                           !.bottom = FALSE], s.env, depth)
      [] g.pc = "outer" ->
           LET r == Advance(g.sub, env, depth + 1)
               h == [g EXCEPT !.sub = r.g]
           IN (CASE r.sig = "yield" /\ r.r = g.text ->
                      manyParseSkipEmpty(h, r.env, depth)
                 [] r.sig = "yield" /\ r.r # g.text ->
                      LET c == manyRecurse(g, r.v, r.r)
                      IN manyParseSkipEmpty(
                             [h EXCEPT !.pc = "inner", !.bottom = TRUE,
                                       !.value = r.v,
                                       !.sub2 = NewGen(c.p, c.text)], r.env, depth)
                 [] r.sig = "stop" ->
                      IF manyStopHere(h)
                      THEN Yielded([h EXCEPT !.pc = "tail"], List(<<>>), g.text, r.env)
                      ELSE Stopped(h, r.env)
                 [] r.sig = "error" -> Raised(h, r.env))
      [] g.pc = "inner" ->
           LET r == Advance(g.sub2, env, depth + 1)
               h == [g EXCEPT !.sub2 = r.g]
           IN (CASE r.sig = "yield" ->
                      Yielded(h, List(<<g.value>> \o r.v.v), r.r, r.env)
                 [] r.sig = "stop" ->
                      manyParseSkipEmpty([h EXCEPT !.pc = "outer"], r.env, depth)
                 [] r.sig = "error" -> Raised(h, r.env))
      [] g.pc = "tail" -> Stopped(g, env)

manyParse(g, env, depth) ==
    CASE g.pc = "start" ->
           LET s == Spawn(g.p.parser, g.text, env)
           IN manyParse([g EXCEPT !.pc = "outer", !.sub = s.g,
                                  !.bottom = FALSE], s.env, depth)
      [] g.pc = "outer" ->
           LET r == Advance(g.sub, env, depth + 1)
               h == [g EXCEPT !.sub = r.g]
           IN (CASE r.sig = "yield" ->
                      LET c == manyRecurse(g, r.v, r.r)
                      IN manyParse([h EXCEPT !.pc = "inner", !.bottom = TRUE,
                                             !.value = r.v,
                                             !.sub2 = NewGen(c.p, c.text)],
                                   r.env, depth)
                 [] r.sig = "stop" ->
                      IF manyStopHere(h)
                      THEN Yielded([h EXCEPT !.pc = "tail"], List(<<>>), g.text, r.env)
                      ELSE Stopped(h, r.env)
                 [] r.sig = "error" -> Raised(h, r.env))
      [] g.pc = "inner" ->
           LET r == Advance(g.sub2, env, depth + 1)
               h == [g EXCEPT !.sub2 = r.g]
           IN (CASE r.sig = "yield" ->
                      Yielded(h, List(<<g.value>> \o r.v.v), r.r, r.env)
                 [] r.sig = "stop" ->
                      manyParse([h EXCEPT !.pc = "outer"], r.env, depth)
                 [] r.sig = "error" -> Raised(h, r.env))
      [] g.pc = "tail" -> Stopped(g, env)

(***************************************************************************)
(* next(g) at call depth `depth`.  A call nested deeper than the           *)
(* interpreter allows raises RecursionError, which unwinds through every   *)
(* generator on the call stack and finishes each of them; next() on a      *)
(* finished generator raises StopIteration.                                *)
(***************************************************************************)
Advance(g, env, depth) ==
    IF depth > RecursionLimit THEN Raised(g, env)
    ELSE IF g.pc = "done" THEN Stopped(g, env)
    ELSE LET h == [g EXCEPT !.nexts = @ + 1]
         IN CASE h.p.op = "Zero" -> ZeroParse(h, env)
              [] h.p.op = "String" -> StringParse(h, env)
              [] h.p.op = "Characters" -> CharactersParse(h, env)
              [] h.p.op = "EndOfInput" -> EndOfInputParse(h, env)
              [] h.p.op = "Pure" -> PureParse(h, env)
              [] h.p.op = "Map" -> MapParse(h, env, depth)
              [] h.p.op = "AndThen" -> AndThenParse(h, env, depth)
              [] h.p.op = "Lift" -> LiftParse(h, env, depth)
              [] h.p.op = "OneOf" -> OneOfParse(h, env, depth)
              [] h.p.op = "many" -> manyParse(h, env, depth)

\* list(g): next() until the generator stops or raises
RECURSIVE Drain(_, _, _)
Drain(g, env, acc) ==
    LET r == Advance(g, env, 1)
    IN IF r.sig = "yield"
       THEN Drain(r.g, r.env, Append(acc, [v |-> r.v, r |-> r.r]))
       ELSE [out |-> acc, sig |-> r.sig, env |-> r.env]

(***************************************************************************)
(* The inputs: texts over a two-letter alphabet, and the parsers built     *)
(* from the library's constructors.                                        *)
(***************************************************************************)
Alphabet == {"a", "1"}

Texts == UNION {[1..n -> Alphabet] : n \in 0..MaxLen}

a1 == Or(String(<<"a">>), String(<<"a", "1">>))

\* parsers used as arguments of the combinators
Base ==
    << Digit,
       String(<<"a">>),
       a1,
       Pure(Str(<<"a">>)),
       Zero,
       EndOfInput,
       String(<<>>),
       Or(Digit, Pure(Str(<<"1">>))),
       Characters(<<"a", "1">>),
       Whitespace >>

NBase == Len(Base)
NPair == 6      \* Base[1..NPair] are the arguments of the two-parser combinators

Values == << Str(<<"a">>), Str(<<"a", "1">>), Str(<<>>) >>
Callbacks == << stringCb, pureCb, thenCb(Digit), passthroughCb(Digit) >>

\* one iterator over two alternatives, given to one OneOf used twice
shared == OneOf(IteratorOf(1, <<String(<<"a">>), Digit>>))

Composites ==
    << passthrough(many(Digit), EndOfInput),
       Lift(pair, a1, a1),
       Map(join, replicate(2, Digit)),
       Or(Or(String(<<"a">>), String(<<"1">>)), Zero),
       Lift(pair, shared, shared),
       many(many(Digit)),
       then(Pure(List(<<>>)), Digit) >>

Ctor(kind, n, i, j) == [kind |-> kind, n |-> n, i |-> i, j |-> j]

Build(c) ==
    CASE c.kind = "base" -> Base[c.i]
      [] c.kind = "composite" -> Composites[c.i]
      [] c.kind = "map" -> Map(identity, Base[c.i])
      [] c.kind = "bind" -> and_then(Pure(Values[c.i]), Callbacks[c.j])
      [] c.kind = "unit" -> and_then(Base[c.i], pureCb)
      [] c.kind = "then" -> then(Base[c.i], Base[c.j])
      [] c.kind = "passthrough" -> passthrough(Base[c.i], Base[c.j])
      [] c.kind = "lift" -> Lift(pair, Base[c.i], Base[c.j])
      [] c.kind = "or" -> Or(Base[c.i], Base[c.j])
      [] c.kind = "oneof" -> OneOf(ListOf(<<Base[c.i], Zero, Base[c.j]>>))
      [] c.kind = "iterator" -> OneOf(IteratorOf(1, <<Base[c.i], Base[c.j]>>))
      [] c.kind = "replicate" -> replicate(c.n, Base[c.i])
      [] c.kind = "many" -> many(Base[c.i])

Ctors ==
    {Ctor("base", 0, i, 0) : i \in 1..NBase}
    \cup {Ctor("composite", 0, i, 0) : i \in 1..Len(Composites)}
    \cup {Ctor("map", 0, i, 0) : i \in 1..NBase}
    \cup {Ctor("bind", 0, i, j) : i \in 1..Len(Values), j \in 1..Len(Callbacks)}
    \cup {Ctor("unit", 0, i, 0) : i \in 1..NBase}
    \cup {Ctor(kind, 0, i, j) :
            kind \in {"then", "passthrough", "lift", "or", "oneof", "iterator"},
            i \in 1..NPair, j \in 1..NPair}
    \cup {Ctor("replicate", n, i, 0) : n \in -1..MaxRep, i \in 1..NBase}
    \cup {Ctor("many", 0, i, 0) : i \in 1..NBase}

IterIds == {1}

(***************************************************************************)
(* The consumer.  It builds a parser (Init), calls parse on it and calls   *)
(* next() on the generator it gets: until StopIteration when take = All    *)
(* (list(p.parse(text))), or until it has `take` results.  Then it may     *)
(* call parse a second time on the same parser and text.                   *)
(***************************************************************************)
All == MaxTake + 1

Env == [iters |-> iters, started |-> started]

Init ==
    /\ ctor \in Ctors
    /\ parser = Build(ctor)
    /\ text \in Texts
    /\ iters = [id \in IterIds |-> 0]
    /\ started = <<>>
    /\ gen = NoGen
    /\ out = <<>>
    /\ phase = "idle"
    /\ take = All
    /\ callNo = 0
    /\ first = [out |-> <<>>, phase |-> "none", take |-> All]

\* g = parser.parse(text)
CallParse ==
    /\ phase = "idle"
    /\ \E k \in 1..All : take' = k
    /\ gen' = NewGen(parser, text)
    /\ started' = <<[p |-> parser, text |-> text]>>
    /\ out' = <<>>
    /\ phase' = "iterating"
    /\ callNo' = 1
    /\ UNCHANGED <<ctor, parser, text, iters, first>>

\* a second g = parser.parse(text), consumed to its end
CallAgain ==
    /\ phase \in {"exhausted", "closed", "error"}
    /\ callNo = 1
    /\ first' = [out |-> out, phase |-> phase, take |-> take]
    /\ take' = All
    /\ gen' = NewGen(parser, text)
    /\ started' = <<[p |-> parser, text |-> text]>>
    /\ out' = <<>>
    /\ phase' = "iterating"
    /\ callNo' = 2
    /\ UNCHANGED <<ctor, parser, text, iters>>

WantsMore == phase = "iterating" /\ (take = All \/ Len(out) < take)

\* next(g) returns a result
NextYields ==
    /\ WantsMore
    /\ LET r == Advance(gen, Env, 1)
       IN /\ r.sig = "yield"
          /\ out' = Append(out, [v |-> r.v, r |-> r.r])
          /\ gen' = r.g
          /\ iters' = r.env.iters
          /\ started' = r.env.started
    /\ UNCHANGED <<ctor, parser, text, phase, take, callNo, first>>

\* next(g) raises StopIteration
NextStops ==
    /\ WantsMore
    /\ LET r == Advance(gen, Env, 1)
       IN /\ r.sig = "stop"
          /\ gen' = r.g
          /\ iters' = r.env.iters
          /\ started' = r.env.started
    /\ phase' = "exhausted"
    /\ UNCHANGED <<ctor, parser, text, out, take, callNo, first>>

\* next(g) raises RecursionError
NextRaises ==
    /\ WantsMore
    /\ LET r == Advance(gen, Env, 1)
       IN /\ r.sig = "error"
          /\ gen' = r.g
          /\ iters' = r.env.iters
          /\ started' = r.env.started
    /\ phase' = "error"
    /\ UNCHANGED <<ctor, parser, text, out, take, callNo, first>>

\* the consumer has what it asked for and drops the generator
Close ==
    /\ phase = "iterating"
    /\ ~WantsMore
    /\ phase' = "closed"
    /\ UNCHANGED <<ctor, parser, text, iters, started, gen, out, take, callNo, first>>

Next ==
    \/ CallParse
    \/ CallAgain
    \/ NextYields
    \/ NextStops
    \/ NextRaises
    \/ Close

Spec == Init /\ [][Next]_vars


(***************************************************************************)
(* list(p.parse(t)) on a parser value nothing has parsed with before: the  *)
(* reference a run of the consumer is compared with.                       *)
(***************************************************************************)
Env0 == [iters |-> [id \in IterIds |-> 0], started |-> <<>>]

parse(p, t) == Drain(NewGen(p, t), Env0, <<>>).out

\* the first k results of p.parse(t), with the parse calls that took
RECURSIVE TakeLoop(_, _, _, _)
TakeLoop(g, env, acc, k) ==
    IF Len(acc) >= k THEN [out |-> acc, env |-> env]
    ELSE LET r == Advance(g, env, 1)
         IN IF r.sig = "yield"
            THEN TakeLoop(r.g, r.env, Append(acc, [v |-> r.v, r |-> r.r]), k)
            ELSE [out |-> acc, env |-> r.env]

Take(p, t, k) ==
    LET s == Spawn(p, t, Env0) IN TakeLoop(s.g, s.env, <<>>, k)

Finished == phase \in {"exhausted", "error"}

(***************************************************************************)
(* C1.  A second parse call on the same parser and text yields the same    *)
(* result sequence as the first: when both calls were consumed to their    *)
(* end, the second call's results are the first call's.                    *)
(***************************************************************************)
C1_SecondParseSame ==
    (callNo = 2 /\ phase = "exhausted" /\ first.phase = "exhausted")
        => out = first.out

(***************************************************************************)
(* C2.  replicate(n, p) with n < 0 never yields a parse result.            *)
(***************************************************************************)
C2_NegativeCountRejected ==
    (ctor.kind = "replicate" /\ ctor.n < 0) => out = <<>>

(***************************************************************************)
(* C5.  For n >= 0, replicate(n, p).parse(t) yields exactly the results of *)
(* applying p n times in sequence, each application on the remainder of    *)
(* the one before: one result per combination of p's alternatives, its     *)
(* value the list of the n values in application order, and no result when *)
(* p fails at one of the applications; replicate(0, p) yields [([], t)].   *)
(***************************************************************************)
\* x put in front of the value of every result of ys
ConsEach(x, ys) == [k \in 1..Len(ys) |-> [v |-> cons(x, ys[k].v), r |-> ys[k].r]]

RECURSIVE Applications(_, _, _)
RECURSIVE ApplicationsAfter(_, _, _)
\* the results of n applications of p, the first of them on t
Applications(n, p, t) ==
    IF n = 0 THEN <<[v |-> List(<<>>), r |-> t]>>
    ELSE ApplicationsAfter(n, p, parse(p, t))
\* the first application gave xs: for each of its results, n - 1 more
ApplicationsAfter(n, p, xs) ==
    IF xs = <<>> THEN <<>>
    ELSE ConsEach(Head(xs).v, Applications(n - 1, p, Head(xs).r))
             \o ApplicationsAfter(n, p, Tail(xs))

C5_ReplicateApplies ==
    (ctor.kind = "replicate" /\ ctor.n >= 0 /\ phase = "exhausted")
        => /\ out = Applications(ctor.n, Base[ctor.i], text)
           /\ \A k \in 1..Len(out) : Len(out[k].v.v) = ctor.n

\* replicate(2, "a" | "a1") on "aa1": both combinations are yielded
C5_Witness ==
    /\ ctor.kind = "replicate" /\ ctor.n = 2
    /\ phase = "exhausted"
    /\ Len(out) = 2

(***************************************************************************)
(* C6.  OneOf([p1, ..., pk]).parse(t) yields p1.parse(t) ++ ... ++         *)
(* pk.parse(t) in list order, every alternative run on t: nothing is       *)
(* dropped, deduplicated or reordered, an alternative that succeeded does  *)
(* not suppress a later one, and Zero contributes nothing.                 *)
(***************************************************************************)
RECURSIVE Alternatives(_, _)
Alternatives(items, t) ==
    IF items = <<>> THEN <<>>
    ELSE parse(Head(items), t) \o Alternatives(Tail(items), t)

C6_OneOfConcatenates ==
    (parser.op = "OneOf" /\ parser.parsers.kind = "list" /\ phase = "exhausted")
        => out = Alternatives(parser.parsers.items, text)

\* OneOf([p, Zero, p]): p's result comes twice, around the Zero
C6_Witness ==
    /\ ctor.kind = "oneof" /\ ctor.i = ctor.j
    /\ phase = "exhausted"
    /\ Len(out) = 2
    /\ out[1] = out[2]

(***************************************************************************)
(* C7.  and_then(Pure(v), f).parse(t) = f(v).parse(t) and                  *)
(* and_then(p, Pure).parse(t) = p.parse(t), as ordered result sequences.   *)
(***************************************************************************)
C7_MonadIdentities ==
    /\ (ctor.kind = "bind" /\ phase = "exhausted")
          => out = parse(Call(Callbacks[ctor.j], Values[ctor.i]), text)
    /\ (ctor.kind = "unit" /\ phase = "exhausted")
          => out = parse(Base[ctor.i], text)

\* and_then("a" | "a1", Pure) on "a1...": two results, input consumed
C7_Witness ==
    /\ ctor.kind = "unit"
    /\ phase = "exhausted"
    /\ Len(out) = 2
    /\ out[2].r # text

(***************************************************************************)
(* C8.  The remainder of every result a parser yields is a suffix of the   *)
(* text it was given.                                                      *)
(***************************************************************************)
C8_RemainderIsSuffix ==
    \A k \in 1..Len(out) : IsSuffix(out[k].r, text)

\* a composed parser that consumed part of its input
C8_Witness ==
    /\ parser.op \in {"AndThen", "Lift", "many"}
    /\ out # <<>>
    /\ out[1].r # <<>>
    /\ out[1].r # text

(***************************************************************************)
(* Properties of the parser handed to many.                                *)
(***************************************************************************)
\* p has at most one result on every input
AtMostOne(p) == \A t \in Texts : Len(parse(p, t)) <= 1

\* p never succeeds without consuming input
Consuming(p) ==
    \A t \in Texts : \A k \in 1..Len(parse(p, t)) :
        Len(parse(p, t)[k].r) < Len(t)

\* p's first result on t leaves all of t
FirstMatchEmpty(p, t) == parse(p, t) # <<>> /\ parse(p, t)[1].r = t

\* the longest run of matches of p from t, and the remainder p fails on
RECURSIVE LongestRun(_, _)
LongestRun(p, t) ==
    LET xs == parse(p, t)
    IN IF xs = <<>> \/ xs[1].r = t
       THEN [v |-> List(<<>>), r |-> t]
       ELSE LET rest == LongestRun(p, xs[1].r)
            IN [v |-> cons(xs[1].v, rest.v), r |-> rest.r]

StopHere == [v |-> List(<<>>), r |-> text]

\* many(p) yields ([], t) exactly when p yields nothing on t; every other
\* result is a value of p on t followed by a result of many(p) on the
\* remainder p left
ManyUnfolds(p) ==
    /\ (StopHere \in Range(out)) <=> (parse(p, text) = <<>>)
    /\ parse(p, text) # <<>> =>
         \A k \in 1..Len(out) :
            /\ out[k].v.v # <<>>
            /\ \E m \in 1..Len(parse(p, text)) :
                 LET x == parse(p, text)[m]
                 IN /\ Head(out[k].v.v) = x.v
                    /\ [v |-> List(Tail(out[k].v.v)), r |-> out[k].r]
                           \in Range(parse(many(p), x.r))

(***************************************************************************)
(* C3 as stated.  When many(p).parse(t) has been consumed to its end: it   *)
(* yielded ([], t) exactly when p.parse(t) yields nothing, every other     *)
(* result is a value of p at t followed by a result of many(p) on the      *)
(* remainder, and for a p with at most one result per input it yielded     *)
(* exactly one result, the longest run of matches.                         *)
(***************************************************************************)
C3_ManyAsStated ==
    (ctor.kind = "many" /\ Finished)
        => /\ ManyUnfolds(Base[ctor.i])
           /\ AtMostOne(Base[ctor.i])
                 => /\ Len(out) = 1
                    /\ out[1] = LongestRun(Base[ctor.i], text)

(***************************************************************************)
(* C3 amended.  As above, the single longest-run result being claimed for  *)
(* a p with at most one result per input none of whose matches in the run  *)
(* from t is empty; the call then ends with StopIteration.                 *)
(***************************************************************************)
\* every match in the run of p from t consumes input
RECURSIVE RunConsumes(_, _)
RunConsumes(p, t) ==
    LET xs == parse(p, t)
    IN IF xs = <<>> THEN TRUE
       ELSE IF xs[1].r = t THEN FALSE
       ELSE RunConsumes(p, xs[1].r)

C3_ManyUnfolds ==
    (ctor.kind = "many" /\ Finished)
        => /\ ManyUnfolds(Base[ctor.i])
           /\ (AtMostOne(Base[ctor.i]) /\ RunConsumes(Base[ctor.i], text))
                 => /\ phase = "exhausted"
                    /\ out = <<LongestRun(Base[ctor.i], text)>>

\* many(Digit) on "11a": one result, two digits, stopped in front of "a"
C3_Witness ==
    /\ ctor.kind = "many"
    /\ phase = "exhausted"
    /\ AtMostOne(Base[ctor.i])
    /\ Len(out) = 1
    /\ Len(out[1].v.v) = 2
    /\ out[1].r # <<>>

(***************************************************************************)
(* C4.  For a p that never succeeds without consuming input, consuming     *)
(* many(p).parse(t) to its end terminates with a finite, non-empty result  *)
(* sequence: no next() runs away into RecursionError, every next() either  *)
(* adds a result or ends the call, the results never outnumber the ways of *)
(* splitting t into matches of p, and the call ends with at least one.     *)
(***************************************************************************)
\* the ways of matching p repeatedly from t until it fails
RECURSIVE Runs(_, _)
RECURSIVE RunsAfter(_, _, _)
Runs(p, t) ==
    IF parse(p, t) = <<>> THEN 1 ELSE RunsAfter(p, t, parse(p, t))
RunsAfter(p, t, xs) ==
    IF xs = <<>> THEN 0
    ELSE (IF Head(xs).r = t THEN 0 ELSE Runs(p, Head(xs).r))
             + RunsAfter(p, t, Tail(xs))

C4_ManyTerminates ==
    (ctor.kind = "many" /\ Consuming(Base[ctor.i]))
        => /\ phase # "error"
           /\ Len(out) <= Runs(Base[ctor.i], text)
           /\ phase = "exhausted" =>
                 (Len(out) >= 1 /\ Len(out) = Runs(Base[ctor.i], text))

\* many("a" | "a1") on "a1a": ended after two results
C4_Witness ==
    /\ ctor.kind = "many"
    /\ Consuming(Base[ctor.i])
    /\ take = All
    /\ phase = "exhausted"
    /\ Len(out) = 2

(***************************************************************************)
(* C9.  Results are produced on demand.                                    *)
(*  - A consumer has taken k >= 1 results of OneOf([p, q]).parse(t), and   *)
(*    p.parse(t) has at least k: the parse calls made so far are OneOf's   *)
(*    own and those p.parse(t) makes for its first k results; q.parse was  *)
(*    not called.                                                          *)
(*  - A consumer has taken one result of and_then(p, f).parse(t): next()   *)
(*    was called on p's generator exactly as often as it takes to reach    *)
(*    the first result of p whose continuation yields a result.            *)
(***************************************************************************)
Taking == phase \in {"iterating", "closed"}

\* index of the first result of p on t whose continuation yields a result
FirstProductive(p, callback, t) ==
    LET xs == parse(p, t)
        good == {m \in 1..Len(xs) :
                    parse(Call(callback, xs[m].v), xs[m].r) # <<>>}
    IN CHOOSE m \in good : \A n \in good : m <= n

C9_OnDemand ==
    /\ (ctor.kind = "or" /\ callNo = 1 /\ Taking /\ Len(out) >= 1
            /\ Len(parse(Base[ctor.i], text)) >= Len(out))
          => /\ started = <<[p |-> parser, text |-> text]>>
                            \o Take(Base[ctor.i], text, Len(out)).env.started
             /\ gen.idx = 1
    /\ (parser.op = "AndThen" /\ callNo = 1 /\ Taking /\ Len(out) = 1)
          => gen.sub.nexts
                = FirstProductive(parser.previous, parser.callback, text)

\* p | q, one result taken from p, and q would have had one too
C9_Witness ==
    /\ ctor.kind = "or"
    /\ callNo = 1
    /\ phase = "closed"
    /\ Len(out) = 1
    /\ parse(Base[ctor.i], text) # <<>>
    /\ parse(Base[ctor.j], text) # <<>>

(***************************************************************************)
(* C10 as stated.  When p succeeds on t without consuming input, a         *)
(* consumer that asks many(p).parse(t) for its first result gets one: the  *)
(* first next() returns a result.                                          *)
(***************************************************************************)
\* p has a result on t that leaves all of t
MatchesEmpty(p, t) == \E k \in 1..Len(parse(p, t)) : parse(p, t)[k].r = t

C10_FirstResultArrives ==
    (ctor.kind = "many" /\ MatchesEmpty(Base[ctor.i], text)
        /\ callNo = 1 /\ phase \in {"exhausted", "closed", "error"})
      => (phase # "error" /\ Len(out) >= 1)

(***************************************************************************)
(* C10 amended.  When the first result of p on t consumes no input (as     *)
(* with p = Pure(v)), many(p).parse(t) never yields: the first next()      *)
(* re-enters many's parse on the same text until the interpreter's         *)
(* recursion limit ends it with RecursionError, and no result, not even    *)
(* the first, is delivered.                                                *)
(***************************************************************************)
C10_NoFirstResult ==
    (ctor.kind = "many" /\ FirstMatchEmpty(Base[ctor.i], text))
      => /\ out = <<>>
         /\ phase \in {"idle", "iterating", "error"}

\* many(Pure("a")): the first next() ended in RecursionError
C10_Witness ==
    /\ ctor.kind = "many"
    /\ FirstMatchEmpty(Base[ctor.i], text)
    /\ phase = "error"
    /\ take = 1

====
